---- MODULE Spec2Model ----
(***************************************************************************)
(* Model of c3_launcher.py: the fleet controller (launch_nodes,            *)
(* ensure_target_node_count, remove_failed_node, stop_all_workloads), the  *)
(* per-node monitor threads (monitor_node) and the shutdown path of main.  *)
(*                                                                         *)
(* Threads: Main (the thread running main) and one monitor thread per      *)
(* launched node; the monitor of node n is thread n.  The module-level     *)
(* globals of the program are shared, unsynchronised state.  One action is *)
(* one access to shared state or one provider call; a blocking call        *)
(* (requests.post, requests.get, time.sleep, Thread.join) is a point where *)
(* any other thread may run.                                               *)
(*                                                                         *)
(* A provider call has three outcomes: "ok" (HTTP 200), "err" (another     *)
(* status: the wrapper logs and returns [] or None) and "exc" (requests    *)
(* raises: no wrapper of a provider call has a try/except).                *)
(***************************************************************************)
EXTENDS Integers, Sequences, FiniteSets, TLC

\* Bounds of the model.
MaxNodes == 5        \* successful launches over the whole run (node ids 1..MaxNodes)
MaxTarget == 3       \* largest --nodes value
MaxKeepTarget == 2   \* largest --nodes value together with --keep-running
MaxFaults == 2       \* events from outside: node deaths, failed provider calls, the interrupt

\* src/c3_launcher.py:248  for retry in range(3)
Retries == 3

Main == 0
NodeIds == 1..MaxNodes
Monitors == NodeIds
Threads == {Main} \cup Monitors

FAST == "ollama_webui:fast"
LARGE == "ollama_webui:large"

VARIABLES
  active_nodes,        \* global list active_nodes, as the sequence of node ids
  should_monitor,      \* global should_monitor
  target_node_count,   \* global target_node_count (= args.nodes)
  node_type_setting,   \* global node_type_setting (= args.type)
  keep_running,        \* global keep_running (= args.keep_running)
  no_rm,               \* args.no_rm
  fault_budget,        \* events from outside this run can have
  api_fails,           \* the provider's API can fail in this run
  running,             \* provider: ids of the workloads that are running
  ntype,               \* result["type"] of each launched node
  nextId,              \* provider: the id the next successful launch gets
  pc,                  \* position of each thread
  current_count,       \* local of ensure_target_node_count, per thread
  nodes_to_add,        \* local of ensure_target_node_count, per thread
  i,                   \* loop index of the launch loop a thread is in
  result,              \* launch result a thread has not appended yet
  successful_launches, \* local of launch_nodes
  filtered,            \* value of the list comprehension a thread has not stored yet
  is_alive,            \* local is_alive of a monitor (lines 247, 251)
  retry,               \* failed checks of a monitor's health-check loop (line 248) so far
  lastList,            \* the answer of get_running_workloads in the monitor's cycle
  verdict,             \* why a monitor left its loop by a death: none/absent/unhealthy
  rmStops,             \* nodes remove_failed_node has issued a Stop for
  saList,              \* the list object stop_all_workloads iterates
  saLive,              \* that object is still the one bound to active_nodes
  saIdx,               \* position of that iteration (0: not called)
  saCall,              \* active_nodes when stop_all_workloads was called
  saStops,             \* Stop requests stop_all_workloads has issued, per node
  nt_changed,          \* node_threads got an entry while main iterates it (line 388)
  deaths,              \* node deaths so far
  perr                 \* provider calls that failed so far

cfgVars == <<target_node_count, node_type_setting, keep_running, no_rm, fault_budget,
            api_fails>>
provVars == <<running, ntype, nextId>>
ensVars == <<current_count, nodes_to_add, i, result>>
monVars == <<filtered, is_alive, retry, lastList>>
histVars == <<verdict, rmStops>>
saVars == <<saList, saLive, saIdx, saCall, saStops, nt_changed>>

vars == <<active_nodes, should_monitor, cfgVars, provVars, pc, ensVars,
          successful_launches, monVars, histVars, saVars, deaths, perr>>

----
\* Helpers.

InList(n, s) == \E k \in 1..Len(s) : s[k] = n

\* [node for node in active_nodes if node.get('workload') != node_id]
RECURSIVE Without(_, _)
Without(s, n) ==
  IF s = <<>> THEN <<>>
  ELSE IF Head(s) = n THEN Without(Tail(s), n)
       ELSE <<Head(s)>> \o Without(Tail(s), n)

\* The type requested for launch index idx (lines 163-168 and 308-311).
WorkloadType(setting, idx) ==
  IF setting = "alternate"
  THEN (IF idx % 2 = 0 THEN FAST ELSE LARGE)
  ELSE "ollama_webui:" \o setting

\* Another event from outside may happen.
FaultsLeft == deaths + perr + (IF should_monitor THEN 0 ELSE 1) < fault_budget

\* Outcomes of a provider call.
Outcomes == {"ok"} \cup (IF api_fails /\ FaultsLeft THEN {"err", "exc"} ELSE {})

Failed(o) == IF o = "ok" THEN perr ELSE perr + 1

\* The process is running.
ProcessAlive == pc[Main] \notin {"exit", "aborted"}

\* Thread.is_alive()
IsAlive(t) == pc[t] \notin {"idle", "done", "crashed", "killed"}

\* Where ensure_target_node_count returns to: main's wait loop (line 378) or the
\* break of the monitor loop (lines 244, 259).
Return(t) == IF t = Main THEN "wait" ELSE "done"

\* No answer of get_running_workloads yet in this cycle.
NoList == [out |-> "none", has |-> FALSE]

\* The main thread ends, normally ("exit") or by an exception nothing catches
\* ("aborted"), and the process with it: the monitor threads are daemon threads
\* (line 277) and end where they are, their locals with them.
EndProcess(how) ==
  /\ pc' = [t \in Threads |-> IF t = Main THEN how
                              ELSE IF IsAlive(t) THEN "killed" ELSE pc[t]]
  /\ current_count' = [t \in Threads |-> 0]
  /\ nodes_to_add' = [t \in Threads |-> 0]
  /\ i' = [t \in Threads |-> 0]
  /\ result' = [t \in Threads |-> 0]
  /\ filtered' = [t \in Monitors |-> <<>>]
  /\ is_alive' = [t \in Monitors |-> IF IsAlive(t) THEN FALSE ELSE is_alive[t]]
  /\ retry' = [t \in Monitors |-> IF IsAlive(t) THEN 0 ELSE retry[t]]
  /\ lastList' = [t \in Monitors |-> NoList]

----
\* The state of the module when main calls launch_nodes, but for the arguments.
Start ==
  /\ active_nodes = <<>>
  /\ should_monitor = TRUE
  /\ running = {}
  /\ ntype = [n \in NodeIds |-> "none"]
  /\ nextId = 1
  /\ pc = [t \in Threads |-> IF t = Main THEN "ln_launch" ELSE "idle"]
  /\ current_count = [t \in Threads |-> 0]
  /\ nodes_to_add = [t \in Threads |-> 0]
  /\ i = [t \in Threads |-> 0]
  /\ result = [t \in Threads |-> 0]
  /\ successful_launches = <<>>
  /\ filtered = [t \in Monitors |-> <<>>]
  /\ is_alive = [t \in Monitors |-> FALSE]
  /\ retry = [t \in Monitors |-> 0]
  /\ lastList = [t \in Monitors |-> NoList]
  /\ verdict = [t \in Monitors |-> "none"]
  /\ rmStops = {}
  /\ saList = <<>>
  /\ saLive = FALSE
  /\ saIdx = 0
  /\ saCall = <<>>
  /\ saStops = [n \in NodeIds |-> 0]
  /\ nt_changed = FALSE
  /\ deaths = 0
  /\ perr = 0

\* Any arguments (lines 353-360), up to MaxFaults events from outside.
Init ==
  /\ target_node_count \in 1..MaxTarget
  /\ node_type_setting \in {"alternate", "fast", "large"}
  /\ keep_running \in BOOLEAN
  /\ keep_running => target_node_count <= MaxKeepTarget
  /\ no_rm \in BOOLEAN
  /\ fault_budget = MaxFaults
  /\ api_fails = TRUE
  /\ Start

\* --nodes MaxKeepTarget --type fast with a provider that answers every call with
\* status 200, and one more event from outside: nodes die, health checks fail, the
\* operator interrupts.
InitReliableApi ==
  /\ target_node_count = MaxKeepTarget
  /\ node_type_setting = "fast"
  /\ keep_running \in BOOLEAN
  /\ no_rm = FALSE
  /\ fault_budget = MaxFaults + 1
  /\ api_fails = FALSE
  /\ Start

----
\* launch_nodes (lines 289-349), run by the main thread.

\* One iteration of the loop of lines 306-327: launch_workload for index i.
LaunchNodesLaunch ==
  /\ pc[Main] = "ln_launch"
  /\ \E o \in Outcomes :
       LET workload_type == WorkloadType(node_type_setting, i[Main])
           last == i[Main] + 1 = target_node_count
       IN
       /\ perr' = Failed(o)
       /\ \/ /\ o = "ok"
             /\ nextId <= MaxNodes
             /\ running' = running \cup {nextId}
             /\ ntype' = [ntype EXCEPT ![nextId] = workload_type]
             /\ nextId' = nextId + 1
             /\ successful_launches' = Append(successful_launches, nextId)
             /\ i' = [i EXCEPT ![Main] = @ + 1]
             /\ pc' = [pc EXCEPT ![Main] = IF last THEN "ln_set" ELSE "ln_launch"]
             /\ UNCHANGED <<current_count, nodes_to_add, result, monVars>>
          \/ /\ o = "err"
             /\ i' = [i EXCEPT ![Main] = @ + 1]
             /\ pc' = [pc EXCEPT ![Main] = IF last THEN "ln_set" ELSE "ln_launch"]
             /\ UNCHANGED <<provVars, successful_launches, current_count,
                            nodes_to_add, result, monVars>>
          \/ /\ o = "exc"
             /\ EndProcess("aborted")
             /\ UNCHANGED <<provVars, successful_launches>>
  /\ UNCHANGED <<active_nodes, should_monitor, cfgVars, histVars, saVars, deaths>>

\* Lines 341-349: active_nodes = successful_launches, a monitor thread for each
\* node, then the top-up pass when keep_running and some launch failed.
LaunchNodesSet ==
  /\ pc[Main] = "ln_set"
  /\ active_nodes' = successful_launches
  /\ i' = [i EXCEPT ![Main] = 0]
  /\ pc' = [t \in Threads |->
              IF t = Main
              THEN (IF keep_running /\ Len(successful_launches) < target_node_count
                    THEN "ens_entry" ELSE "wait")
              ELSE IF InList(t, successful_launches) THEN "start" ELSE pc[t]]
  /\ UNCHANGED <<should_monitor, cfgVars, provVars, current_count, nodes_to_add,
                 result, successful_launches, monVars, histVars, saVars, deaths, perr>>

----
\* ensure_target_node_count (lines 147-188), run by the main thread or by a monitor.

\* A deficit that is one too large.
NodesToAdd_OffByOne(count) ==
  IF count <= target_node_count THEN target_node_count - count + 1 ELSE 0

\* Lines 157-158: the number of nodes to launch for the count read at line 155.
NodesToAdd(count) ==
  IF count < target_node_count THEN target_node_count - count ELSE 0

\* A replacement sequence that restarts at index 0.
ReplacementIndex_FromZero(count, k) == k

\* Line 165: the launch index of the i-th replacement.
ReplacementIndex(count, k) == count + k

\* Lines 152-159 and 188: the keep_running test, the one read of len(active_nodes)
\* and the deficit.
EnsureEntry(t) ==
  /\ ProcessAlive
  /\ pc[t] = "ens_entry"
  /\ IF keep_running /\ NodesToAdd(Len(active_nodes)) > 0
     THEN /\ current_count' = [current_count EXCEPT ![t] = Len(active_nodes)]
          /\ nodes_to_add' = [nodes_to_add EXCEPT ![t] = NodesToAdd(Len(active_nodes))]
          /\ i' = [i EXCEPT ![t] = 0]
          /\ pc' = [pc EXCEPT ![t] = "ens_launch"]
     ELSE /\ pc' = [pc EXCEPT ![t] = Return(t)]
          /\ UNCHANGED <<current_count, nodes_to_add, i>>
  /\ UNCHANGED <<active_nodes, should_monitor, cfgVars, provVars, result,
                 successful_launches, monVars, histVars, saVars, deaths, perr>>

\* The locals of ensure_target_node_count of thread t when the call returns.
EnsureReturn(t) ==
  /\ current_count' = [current_count EXCEPT ![t] = 0]
  /\ nodes_to_add' = [nodes_to_add EXCEPT ![t] = 0]
  /\ i' = [i EXCEPT ![t] = 0]

\* Lines 161-171 and 185-186: launch_workload for the i-th replacement.
EnsureLaunch(t) ==
  /\ ProcessAlive
  /\ pc[t] = "ens_launch"
  /\ \E o \in Outcomes :
       LET idx == ReplacementIndex(current_count[t], i[t])
           workload_type == WorkloadType(node_type_setting, idx)
           last == i[t] + 1 = nodes_to_add[t]
       IN
       /\ perr' = Failed(o)
       /\ \/ /\ o = "ok"
             /\ nextId <= MaxNodes
             /\ running' = running \cup {nextId}
             /\ ntype' = [ntype EXCEPT ![nextId] = workload_type]
             /\ nextId' = nextId + 1
             /\ result' = [result EXCEPT ![t] = nextId]
             /\ pc' = [pc EXCEPT ![t] = "ens_append"]
             /\ UNCHANGED <<current_count, nodes_to_add, i, monVars>>
          \/ /\ o = "err"
             /\ IF last
                THEN /\ pc' = [pc EXCEPT ![t] = Return(t)]
                     /\ EnsureReturn(t)
                ELSE /\ i' = [i EXCEPT ![t] = @ + 1]
                     /\ UNCHANGED <<pc, current_count, nodes_to_add>>
             /\ UNCHANGED <<provVars, result, monVars>>
          \/ /\ o = "exc"
             /\ IF t = Main
                THEN EndProcess("aborted")
                ELSE /\ pc' = [pc EXCEPT ![t] = "crashed"]
                     /\ UNCHANGED <<ensVars, monVars>>
             /\ UNCHANGED provVars
  /\ UNCHANGED <<active_nodes, should_monitor, cfgVars, successful_launches, histVars,
                 saVars, deaths>>

\* Lines 173-184: active_nodes.append(result) on the list object that is bound to
\* active_nodes now, and the monitor thread of the new node.
EnsureAppend(t) ==
  /\ ProcessAlive
  /\ pc[t] = "ens_append"
  /\ active_nodes' = Append(active_nodes, result[t])
  /\ saList' = IF saLive THEN Append(saList, result[t]) ELSE saList
  /\ nt_changed' = (nt_changed \/ pc[Main] = "sd_join")
  /\ result' = [result EXCEPT ![t] = 0]
  /\ IF i[t] + 1 = nodes_to_add[t]
     THEN /\ pc' = [pc EXCEPT ![t] = Return(t), ![result[t]] = "start"]
          /\ EnsureReturn(t)
     ELSE /\ pc' = [pc EXCEPT ![t] = "ens_launch", ![result[t]] = "start"]
          /\ i' = [i EXCEPT ![t] = @ + 1]
          /\ UNCHANGED <<current_count, nodes_to_add>>
  /\ UNCHANGED <<should_monitor, cfgVars, provVars, successful_launches, monVars,
                 histVars, saLive, saIdx, saCall, saStops, deaths, perr>>

----
\* monitor_node (lines 215-266), run by the monitor thread t of node t.

\* What check_node_health (lines 134-144) can answer: it catches every exception.
HealthAnswers == {TRUE} \cup (IF FaultsLeft THEN {FALSE} ELSE {})

\* Lines 226-230: the initial check_node_health.  Its answer is only logged and is
\* overwritten at line 249 before anything reads it, so it is not kept.
InitialProbe(t) ==
  /\ ProcessAlive
  /\ pc[t] = "start"
  /\ \E h \in HealthAnswers : pc' = [pc EXCEPT ![t] = "loop"]
  /\ UNCHANGED <<active_nodes, should_monitor, cfgVars, provVars, ensVars,
                 successful_launches, monVars, histVars, saVars, deaths, perr>>

\* Line 232: while should_monitor and node_info in active_nodes.
LoopCheck(t) ==
  /\ ProcessAlive
  /\ pc[t] = "loop"
  /\ pc' = [pc EXCEPT ![t] = IF should_monitor /\ InList(t, active_nodes)
                                THEN "list" ELSE "done"]
  /\ UNCHANGED <<active_nodes, should_monitor, cfgVars, provVars, ensVars,
                 successful_launches, monVars, histVars, saVars, deaths, perr>>

\* What get_running_workloads (lines 55-67) returns for an outcome that is not an
\* exception: the ids of the running workloads, or [] for a status other than 200.
get_running_workloads(o) == IF o = "ok" THEN running ELSE {}

\* A monitor that probes a node the provider does not list.
AfterList_ProbeAnyway(listed) == "hc"

\* Lines 237 and 246: the branch on node_id not in workload_ids.
AfterList(listed) == IF listed THEN "hc" ELSE "abs_filter"

\* Lines 234-238 and 246-247: the list call and the branch on its answer.
ListRunning(t) ==
  /\ ProcessAlive
  /\ pc[t] = "list"
  /\ \E o \in Outcomes :
       /\ perr' = Failed(o)
       /\ \/ /\ o # "exc"
             /\ LET workload_ids == get_running_workloads(o)
                    next == AfterList(t \in workload_ids)
                IN
                /\ lastList' = [lastList EXCEPT ![t] =
                                  [out |-> o, has |-> t \in workload_ids]]
                /\ pc' = [pc EXCEPT ![t] = next]
                /\ verdict' = [verdict EXCEPT ![t] =
                                 IF next = "abs_filter" THEN "absent" ELSE @]
                /\ retry' = [retry EXCEPT ![t] = 0]
                /\ is_alive' = [is_alive EXCEPT ![t] = FALSE]
          \/ /\ o = "exc"
             /\ pc' = [pc EXCEPT ![t] = "crashed"]
             /\ UNCHANGED <<lastList, verdict, retry, is_alive>>
  /\ UNCHANGED <<active_nodes, should_monitor, cfgVars, provVars, ensVars,
                 successful_launches, filtered, rmStops, saVars, deaths>>

\* Line 240, the list comprehension: it reads the list bound to active_nodes now.
AbsentFilter(t) ==
  /\ ProcessAlive
  /\ pc[t] = "abs_filter"
  /\ filtered' = [filtered EXCEPT ![t] = Without(active_nodes, t)]
  /\ pc' = [pc EXCEPT ![t] = "abs_store"]
  /\ UNCHANGED <<active_nodes, should_monitor, cfgVars, provVars, ensVars,
                 successful_launches, is_alive, retry, lastList, histVars, saVars,
                 deaths, perr>>

\* Lines 240-244: the store to the global active_nodes, then the reconciliation
\* when keep_running, then break.
AbsentStore(t) ==
  /\ ProcessAlive
  /\ pc[t] = "abs_store"
  /\ active_nodes' = filtered[t]
  /\ saLive' = FALSE
  /\ filtered' = [filtered EXCEPT ![t] = <<>>]
  /\ lastList' = [lastList EXCEPT ![t] = NoList]
  /\ pc' = [pc EXCEPT ![t] = IF keep_running THEN "ens_entry" ELSE "done"]
  /\ UNCHANGED <<should_monitor, cfgVars, provVars, ensVars, successful_launches,
                 is_alive, retry, histVars, saList, saIdx, saCall, saStops,
                 nt_changed, deaths, perr>>

\* A monitor that gives up at the first failed check.
AfterCheck_NoRetry(ok, r) == IF ok THEN "loop" ELSE "rm_stop"

\* Lines 248-261: where the monitor goes after the check_node_health number
\* retry (0-based) answered ok: the sleep and the next cycle at the first True, the
\* next attempt at a False, remove_failed_node when the last attempt is False.
AfterCheck(ok, r) ==
  IF ok THEN "loop"
  ELSE IF r + 1 = Retries THEN "rm_stop" ELSE "hc"

\* Lines 248-264: one check_node_health of the retry loop.
HealthCheck(t) ==
  /\ ProcessAlive
  /\ pc[t] = "hc"
  /\ \E h \in HealthAnswers :
       LET next == AfterCheck(h, retry[t]) IN
       /\ is_alive' = [is_alive EXCEPT ![t] = h]
       /\ pc' = [pc EXCEPT ![t] = next]
       /\ retry' = [retry EXCEPT ![t] = IF next = "loop" THEN 0 ELSE @ + 1]
       /\ verdict' = [verdict EXCEPT ![t] = IF next = "rm_stop" THEN "unhealthy" ELSE @]
       /\ deaths' = IF next = "rm_stop" THEN deaths + 1 ELSE deaths
  /\ lastList' = [lastList EXCEPT ![t] = NoList]
  /\ UNCHANGED <<active_nodes, should_monitor, cfgVars, provVars, ensVars,
                 successful_launches, filtered, rmStops, saVars, perr>>

----
\* remove_failed_node (lines 191-212), run by the monitor thread t for node t.

\* Lines 201-205: stop_workload(node_id); None (a status other than 200) is logged.
RemoveStop(t) ==
  /\ ProcessAlive
  /\ pc[t] = "rm_stop"
  /\ \E o \in Outcomes :
       /\ perr' = Failed(o)
       /\ rmStops' = rmStops \cup {t}
       /\ \/ /\ o = "ok"
             /\ running' = running \ {t}
             /\ pc' = [pc EXCEPT ![t] = "rm_filter"]
          \/ /\ o = "err"
             /\ pc' = [pc EXCEPT ![t] = "rm_filter"]
             /\ UNCHANGED running
          \/ /\ o = "exc"
             /\ pc' = [pc EXCEPT ![t] = "crashed"]
             /\ UNCHANGED running
  /\ UNCHANGED <<active_nodes, should_monitor, cfgVars, ntype, nextId, ensVars,
                 successful_launches, monVars, verdict, saVars, deaths>>

\* Line 208, the list comprehension.
RemoveFilter(t) ==
  /\ ProcessAlive
  /\ pc[t] = "rm_filter"
  /\ filtered' = [filtered EXCEPT ![t] = Without(active_nodes, t)]
  /\ pc' = [pc EXCEPT ![t] = "rm_store"]
  /\ UNCHANGED <<active_nodes, should_monitor, cfgVars, provVars, ensVars,
                 successful_launches, is_alive, retry, lastList, histVars, saVars,
                 deaths, perr>>

\* Lines 208-212: the store to the global active_nodes, then the reconciliation
\* when keep_running; the caller breaks (line 259).
RemoveStore(t) ==
  /\ ProcessAlive
  /\ pc[t] = "rm_store"
  /\ active_nodes' = filtered[t]
  /\ saLive' = FALSE
  /\ filtered' = [filtered EXCEPT ![t] = <<>>]
  /\ pc' = [pc EXCEPT ![t] = IF keep_running THEN "ens_entry" ELSE "done"]
  /\ UNCHANGED <<should_monitor, cfgVars, provVars, ensVars, successful_launches,
                 is_alive, retry, lastList, histVars, saList, saIdx, saCall,
                 saStops, nt_changed, deaths, perr>>

----
\* main (lines 378-399) after launch_nodes.

\* Lines 380-381: the wait loop ends when no monitor thread is alive.
WaitExit ==
  /\ pc[Main] = "wait"
  /\ \A t \in Monitors : ~IsAlive(t)
  /\ EndProcess("exit")
  /\ UNCHANGED <<active_nodes, should_monitor, cfgVars, provVars,
                 successful_launches, histVars, saVars, deaths, perr>>

\* Lines 382-385: KeyboardInterrupt in the wait loop; should_monitor = False.
Interrupt ==
  /\ pc[Main] = "wait"
  /\ FaultsLeft
  /\ should_monitor' = FALSE
  /\ pc' = [pc EXCEPT ![Main] = "sd_join"]
  /\ UNCHANGED <<active_nodes, cfgVars, provVars, ensVars, successful_launches,
                 monVars, histVars, saVars, deaths, perr>>

\* Lines 388-397: thread.join(timeout=2) for each entry of node_threads (a thread
\* that has not ended in time is left running), then stop_all_workloads unless
\* no_rm.  The loop iterates the dict itself: when start_node_monitoring (line 284)
\* has added a key meanwhile, the next step of the iteration raises RuntimeError,
\* which nothing catches; when the new node's hostname was a key already, the dict
\* has kept its size and the loop goes on.
JoinMonitors ==
  /\ pc[Main] = "sd_join"
  /\ \E raised \in (IF nt_changed THEN BOOLEAN ELSE {FALSE}) :
       IF raised
       THEN /\ EndProcess("aborted")
            /\ UNCHANGED <<saList, saLive, saIdx, saCall>>
       ELSE IF no_rm
       THEN /\ EndProcess("exit")
            /\ UNCHANGED <<saList, saLive, saIdx, saCall>>
       ELSE /\ pc' = [pc EXCEPT ![Main] = "sa"]
            /\ saList' = active_nodes
            /\ saCall' = active_nodes
            /\ saLive' = TRUE
            /\ saIdx' = 1
            /\ UNCHANGED <<ensVars, monVars>>
  /\ nt_changed' = FALSE
  /\ UNCHANGED <<active_nodes, should_monitor, cfgVars, provVars,
                 successful_launches, histVars, saStops, deaths, perr>>

\* stop_all_workloads (lines 113-131): one iteration of for node_info in
\* active_nodes, or the end of the loop and the return to main, which ends.
StopAllStep ==
  /\ pc[Main] = "sa"
  /\ IF saIdx > Len(saList)
     THEN /\ EndProcess("exit")
          /\ saLive' = FALSE
          /\ UNCHANGED <<running, saIdx, saStops, perr>>
     ELSE \E o \in Outcomes :
            LET node_id == saList[saIdx] IN
            /\ perr' = Failed(o)
            /\ saStops' = [saStops EXCEPT ![node_id] = @ + 1]
            /\ \/ /\ o = "ok"
                  /\ running' = running \ {node_id}
                  /\ saIdx' = saIdx + 1
                  /\ UNCHANGED <<pc, ensVars, monVars, saLive>>
               \/ /\ o = "err"
                  /\ saIdx' = saIdx + 1
                  /\ UNCHANGED <<running, pc, ensVars, monVars, saLive>>
               \/ /\ o = "exc"
                  /\ EndProcess("aborted")
                  /\ saLive' = FALSE
                  /\ UNCHANGED <<running, saIdx>>
  /\ UNCHANGED <<active_nodes, should_monitor, cfgVars, ntype, nextId,
                 successful_launches, histVars, saList, saCall, nt_changed, deaths>>

----
\* The provider ends a running workload on its own (the lease of line 76 expires, or
\* the node is evicted).
Kill(n) ==
  /\ ProcessAlive
  /\ FaultsLeft
  /\ n \in running
  /\ running' = running \ {n}
  /\ deaths' = deaths + 1
  /\ UNCHANGED <<active_nodes, should_monitor, cfgVars, ntype, nextId, pc, ensVars,
                 successful_launches, monVars, histVars, saVars, perr>>

Next ==
  \/ LaunchNodesLaunch
  \/ LaunchNodesSet
  \/ \E t \in Threads : EnsureEntry(t)
  \/ \E t \in Threads : EnsureLaunch(t)
  \/ \E t \in Threads : EnsureAppend(t)
  \/ \E t \in Monitors : InitialProbe(t)
  \/ \E t \in Monitors : LoopCheck(t)
  \/ \E t \in Monitors : ListRunning(t)
  \/ \E t \in Monitors : AbsentFilter(t)
  \/ \E t \in Monitors : AbsentStore(t)
  \/ \E t \in Monitors : HealthCheck(t)
  \/ \E t \in Monitors : RemoveStop(t)
  \/ \E t \in Monitors : RemoveFilter(t)
  \/ \E t \in Monitors : RemoveStore(t)
  \/ WaitExit
  \/ Interrupt
  \/ JoinMonitors
  \/ StopAllStep
  \/ \E n \in NodeIds : Kill(n)

Spec == Init /\ [][Next]_vars

\* The runs with a provider whose API does not fail, and one more event.
SpecReliableApi == InitReliableApi /\ [][Next]_vars

----
\* Definitions the claims are stated with.

\* The step is a step of thread t.
StepOf(t) == pc'[t] # pc[t] /\ pc'[t] # "killed"

\* Every thread is at rest and no death is waiting to be found: the main thread
\* is in its wait loop, each monitor has ended or is between two cycles, and the
\* node of each monitor that goes on is running.
AtRest ==
  /\ pc[Main] = "wait"
  /\ should_monitor
  /\ \A t \in Monitors :
       /\ pc[t] \in {"idle", "done", "loop"}
       /\ pc[t] = "loop" => t \in running /\ InList(t, active_nodes)

\* The number of nodes of type ty in the list s.
RECURSIVE CountType(_, _)
CountType(s, ty) ==
  IF s = <<>> THEN 0
  ELSE (IF ntype[Head(s)] = ty THEN 1 ELSE 0) + CountType(Tail(s), ty)

\* The type of launch index idx under the policy of the run, as the specification
\* states it: alternating is fast at an even index and large at an odd one, a fixed
\* policy is its one type.
PolicyType(idx) ==
  CASE node_type_setting = "alternate" -> (IF idx % 2 = 0 THEN FAST ELSE LARGE)
    [] node_type_setting = "fast" -> FAST
    [] node_type_setting = "large" -> LARGE

----
\* C1.  Convergence: with keep_running and a provider whose calls all succeed, once
\* the node deaths are over and every thread is at rest, len(active_nodes) is
\* target_node_count.  (At rest with no further death nothing changes
\* active_nodes any more, so a state at rest with another length is a fleet that
\* stays away from the target.)
C1_Convergence ==
  (keep_running /\ perr = 0 /\ AtRest) => Len(active_nodes) = target_node_count

\* C2.  Graceful exit: from the moment should_monitor is False no monitor removes a
\* node from active_nodes, issues the Stop of a removal or launches a node.
C2_GracefulExit ==
  [][should_monitor = FALSE =>
       /\ active_nodes' = active_nodes
       /\ rmStops' = rmStops
       /\ nextId' = nextId]_vars

\* C3.  A list call that failed causes no death verdict: the monitor of a running
\* node whose list call in this cycle got an error response has no verdict and
\* its node is in active_nodes.
C3_ListFailureNoDeath ==
  \A t \in Monitors :
    (lastList[t].out = "err" /\ t \in running)
      => (verdict[t] = "none" /\ pc[t] \notin {"abs_filter", "abs_store"})


\* C4.  Death via absence outranks health: a monitor whose list answer in this
\* cycle does not contain its node has the verdict absent in that cycle and makes
\* no health check in it: it is on the absence path (lines 238-244), with no
\* attempt counted.
C4_AbsenceOutranksHealth ==
  \A t \in Monitors :
    (lastList[t].out # "none" /\ ~lastList[t].has)
      => /\ verdict[t] = "absent"
         /\ pc[t] \in {"abs_filter", "abs_store"}
         /\ retry[t] = 0

\* A node that is running, so that a health check of it could succeed, has the
\* verdict absent because the list answer did not contain it.
C4_Witness ==
  \E t \in Monitors :
    /\ lastList[t].out # "none" /\ ~lastList[t].has
    /\ t \in running
    /\ pc[t] = "abs_store"

\* C5.  Bounded retry: in a cycle where the node is listed the monitor makes at most
\* 3 health checks, one after the other; the first success ends the cycle with no
\* death, a failure of attempt 1 or 2 leads to the next attempt, and the node is
\* declared dead (remove_failed_node) exactly at the failure of attempt 3.
C5_BoundedRetry ==
  /\ [](\A t \in Monitors :
          /\ retry[t] <= 3
          /\ pc[t] = "hc" => retry[t] < 3 /\ verdict[t] = "none"
          /\ (verdict[t] = "unhealthy" /\ pc[t] # "killed")
               => retry[t] = 3 /\ ~is_alive[t])
  /\ [][\A t \in Monitors :
          (pc[t] = "hc" /\ pc'[t] # "killed" /\ (pc'[t] # "hc" \/ retry'[t] # retry[t]))
            => /\ is_alive'[t]
                    => /\ pc'[t] = "loop"
                       /\ verdict'[t] = "none"
                       /\ active_nodes' = active_nodes
               /\ (~is_alive'[t] /\ retry[t] + 1 < 3)
                    => /\ pc'[t] = "hc"
                       /\ retry'[t] = retry[t] + 1
                       /\ verdict'[t] = "none"
               /\ (~is_alive'[t] /\ retry[t] + 1 = 3)
                    => /\ pc'[t] = "rm_stop"
                       /\ verdict'[t] = "unhealthy"]_vars

\* A monitor whose node failed three health checks in one cycle is about to
\* remove it.
C5_Witness ==
  \E t \in Monitors : pc[t] = "rm_stop" /\ verdict[t] = "unhealthy" /\ retry[t] = 3

\* C6.  Idempotent reconciliation: a call of ensure_target_node_count in a state
\* where len(active_nodes) is target_node_count, or keep_running is False, returns
\* at once: no launch, no new monitor thread, active_nodes unchanged.
C6_IdempotentReconcile ==
  [][\A t \in Threads :
       (/\ pc[t] = "ens_entry"
        /\ StepOf(t)
        /\ (Len(active_nodes) = target_node_count \/ ~keep_running))
         => /\ pc'[t] = Return(t)
            /\ active_nodes' = active_nodes
            /\ nextId' = nextId
            /\ running' = running
            /\ \A n \in Monitors : pc[n] = "idle" => pc'[n] = "idle"]_vars

\* A thread is about to run ensure_target_node_count with the fleet at its target.
C6_Witness ==
  \E t \in Threads :
    pc[t] = "ens_entry" /\ keep_running /\ Len(active_nodes) = target_node_count

\* No launch of the loop of launch_nodes has failed.
NoFleetFailure ==
  IF pc[Main] = "ln_launch"
  THEN Len(successful_launches) = i[Main]
  ELSE Len(successful_launches) = target_node_count

\* C7.  Deterministic type sequence: with no launch failure the k-th node of
\* launch_nodes (index k - 1) has the type of the policy at its index, fast at an
\* even index and large at an odd one when alternating; under a fixed policy every
\* node has the one type; and the i-th launch of a reconciliation has the type of
\* the index (len(active_nodes) read at its entry) + i.
C7_TypeSequence ==
  /\ [](/\ NoFleetFailure =>
             \A k \in 1..Len(successful_launches) :
               ntype[successful_launches[k]] = PolicyType(k - 1)
        /\ node_type_setting # "alternate" =>
             \A n \in 1..(nextId - 1) : ntype[n] = PolicyType(0))
  /\ [][\A t \in Threads :
          /\ (pc[t] = "ens_entry" /\ pc'[t] = "ens_launch")
               => current_count'[t] = Len(active_nodes) /\ i'[t] = 0
          /\ (pc[t] = "ens_launch" /\ pc'[t] = "ens_append")
               => /\ ntype'[result'[t]] = PolicyType(current_count[t] + i[t])
                  /\ current_count'[t] = current_count[t]
                  /\ i'[t] = i[t]
          /\ (pc[t] = "ens_launch" /\ pc'[t] = "ens_launch")
               => current_count'[t] = current_count[t] /\ i'[t] \in {i[t], i[t] + 1}
          /\ (pc[t] = "ens_append" /\ pc'[t] = "ens_launch")
               => current_count'[t] = current_count[t] /\ i'[t] = i[t] + 1]_vars

\* A replacement was launched at an odd index of the alternating policy while the
\* fleet was not empty.
C7_Witness ==
  \E t \in Threads :
    /\ pc[t] = "ens_append"
    /\ node_type_setting = "alternate"
    /\ current_count[t] > 0
    /\ ntype[result[t]] = LARGE

\* C8.  Balanced replacement: under the alternating policy with keep_running, once
\* the fleet is back at target_node_count and at rest after the death of one node,
\* or after one launch failure of the loop of launch_nodes, active_nodes has as
\* many fast and as many large nodes as target_node_count launches at the indices
\* 0, 1, ... have.
C8_BalancedReplacement ==
  (/\ keep_running
   /\ node_type_setting = "alternate"
   /\ AtRest
   /\ Len(active_nodes) = target_node_count
   /\ \/ deaths = 1 /\ perr = 0
      \/ deaths = 0 /\ perr = 1 /\ Len(successful_launches) = target_node_count - 1)
    => /\ CountType(active_nodes, FAST) = (target_node_count + 1) \div 2
       /\ CountType(active_nodes, LARGE) = target_node_count \div 2

\* C9.  stop_all_workloads issues one Stop for every node that was in active_nodes
\* at the call, never a second one for a node, goes on after a Stop that failed
\* and returns normally: when the process has ended after a call, main ended
\* normally and each of those nodes has had exactly one Stop.
C9_StopAll ==
  /\ \A n \in NodeIds : saStops[n] <= 1
  /\ (saIdx > 0 /\ ~ProcessAlive)
       => /\ pc[Main] = "exit"
          /\ \A k \in 1..Len(saCall) : saStops[saCall[k]] = 1

\* C10.  remove_failed_node issues the Stop and goes on to the removal whatever the
\* outcome of the Stop, the removal takes the node out of active_nodes and leaves
\* every other node in place, and ensure_target_node_count is called next exactly
\* when keep_running.
C10_RemoveNode ==
  [][\A t \in Monitors :
       /\ (pc[t] = "rm_stop" /\ StepOf(t))
            => pc'[t] = "rm_filter" /\ t \in rmStops'
       /\ (pc[t] = "rm_filter" /\ StepOf(t))
            => pc'[t] = "rm_store" /\ active_nodes' = active_nodes
       /\ (pc[t] = "rm_store" /\ StepOf(t))
            => /\ active_nodes' = Without(active_nodes, t)
               /\ pc'[t] = IF keep_running THEN "ens_entry" ELSE "done"]_vars

\* The set of the nodes in the list s.
Range(s) == {s[k] : k \in 1..Len(s)}

\* C11.  With keep_running False the fleet only shrinks: once launch_nodes has set
\* active_nodes, no step launches a node and no step puts a node into
\* active_nodes that is not in it.
C11_OnlyShrinks ==
  [][(~keep_running /\ pc[Main] \notin {"ln_launch", "ln_set"})
       => /\ nextId' = nextId
          /\ Range(active_nodes') \subseteq Range(active_nodes)]_vars

\* C12.  One live monitor for each tracked node: while should_monitor is True and
\* the process runs, the monitor thread of every node in active_nodes is alive
\* (here in the runs where no provider call has failed).
C12_OneMonitorPerNode ==
  (/\ should_monitor
   /\ ProcessAlive
   /\ pc[Main] \notin {"ln_launch", "ln_set"}
   /\ perr = 0)
    => \A k \in 1..Len(active_nodes) : IsAlive(active_nodes[k])

\* C13.  Shutdown sequence: should_monitor is False while main joins the monitors
\* and in stop_all_workloads; stop_all_workloads starts from the join loop only;
\* a shutdown that has ended has called stop_all_workloads exactly when no_rm is
\* False; and with no_rm stop_all_workloads issues no Stop.
C13_ShutdownSequence ==
  /\ [](/\ pc[Main] \in {"sd_join", "sa"} => ~should_monitor
        /\ (~ProcessAlive /\ ~should_monitor) => (saIdx > 0 <=> ~no_rm)
        /\ no_rm => \A n \in NodeIds : saStops[n] = 0)
  /\ [][(pc'[Main] = "sa" /\ pc[Main] # "sa") => pc[Main] = "sd_join"]_vars

\* C14.  Clean teardown: when a shutdown that ran stop_all_workloads has ended
\* (here with no failed provider call), every node that is still running at the
\* provider has had a Stop request, from stop_all_workloads or from
\* remove_failed_node.
C14_CleanTeardown ==
  (pc[Main] = "exit" /\ saIdx > 0 /\ perr = 0)
    => \A n \in running : saStops[n] > 0 \/ n \in rmStops

\* The monitor t has passed the store that takes its node out of active_nodes.
PastRemoval(t) == pc[t] \in {"done", "ens_entry", "ens_launch", "ens_append"}

\* C15.  Every death verdict of a monitor, by absence or by 3 failed health checks,
\* goes through remove_failed_node: the monitor starts no further cycle, and once
\* it has taken its node out of active_nodes a Stop request for the node has been
\* issued.
C15_DeadInvokesRemove ==
  \A t \in Monitors :
    verdict[t] # "none"
      => /\ pc[t] \notin {"start", "loop", "list", "hc"}
         /\ PastRemoval(t) => t \in rmStops

\* C16.  A provider call that fails, by a network error as well as by an error
\* response, returns a failure to its caller: the step of the failed call ends
\* neither the main thread nor a monitor thread by an exception.
C16_FailureIsReturned ==
  [][perr' # perr
       => /\ pc'[Main] # "aborted"
          /\ \A t \in Monitors : pc'[t] = "crashed" => pc[t] = "crashed"]_vars

\* C17.  A monitor does not outlive its node in active_nodes: while its node is not
\* in active_nodes the monitor starts no cycle, issues no Stop of a removal and
\* stores no filtered list, and it does not go from such a store on to a
\* reconciliation.
C17_NoActionAfterRemoval ==
  [][\A t \in Monitors :
       (~InList(t, active_nodes) /\ StepOf(t))
         => /\ ~(pc[t] = "loop" /\ pc'[t] = "list")
            /\ pc[t] \notin {"rm_stop", "abs_store", "rm_store"}]_vars

\* The step is a launch_workload of thread t in ensure_target_node_count.
ReplacementLaunch(t) ==
  /\ pc[t] = "ens_launch"
  /\ pc'[t] # "killed"
  /\ (pc'[t] # "ens_launch" \/ i'[t] # i[t])

\* What thread t does after the launch number i[t] of its reconciliation: the next
\* launch, or the return after the last one.
NextLaunch(t) ==
  IF i[t] + 1 < nodes_to_add[t]
  THEN pc'[t] = "ens_launch" /\ i'[t] = i[t] + 1 /\ nodes_to_add'[t] = nodes_to_add[t]
  ELSE pc'[t] = Return(t)

\* C18.  A launch that failed is not retried within the call: a reconciliation
\* that launches reads the deficit target_node_count - len(active_nodes) once,
\* at its entry, and makes one launch for each i below it; launch_nodes makes one
\* launch for each index below target_node_count; a failed launch adds no node,
\* starts no monitor and is followed by the next index.
C18_NoRetry ==
  [][/\ \A t \in Threads :
          /\ (pc[t] = "ens_entry" /\ pc'[t] = "ens_launch")
               => /\ nodes_to_add'[t] = target_node_count - Len(active_nodes)
                  /\ i'[t] = 0
          /\ ReplacementLaunch(t)
               => \/ /\ pc'[t] = "ens_append"
                     /\ nextId' = nextId + 1
                     /\ i'[t] = i[t] /\ nodes_to_add'[t] = nodes_to_add[t]
                  \/ /\ nextId' = nextId
                     /\ active_nodes' = active_nodes
                     /\ \A n \in Monitors : pc[n] = "idle" => pc'[n] = "idle"
                     /\ NextLaunch(t)
          /\ (pc[t] = "ens_append" /\ StepOf(t)) => NextLaunch(t)
     /\ (pc[Main] = "ln_launch" /\ (pc'[Main] # "ln_launch" \/ i'[Main] # i[Main]))
          => /\ i'[Main] = i[Main] + 1
             /\ pc'[Main] = (IF i[Main] + 1 < target_node_count
                             THEN "ln_launch" ELSE "ln_set")
             /\ nextId' = nextId => successful_launches' = successful_launches]_vars

\* C19.  The fleet is never larger than the target: len(active_nodes) is at most
\* target_node_count in every state (here of the runs with no failed provider call).
C19_NeverAboveTarget ==
  perr = 0 => Len(active_nodes) <= target_node_count

\* The launch result of node n has not reached active_nodes yet: launch_nodes has
\* it in successful_launches, or a reconciliation is about to append it.
Pending(n) ==
  \/ pc[Main] \in {"ln_launch", "ln_set"} /\ InList(n, successful_launches)
  \/ \E t \in Threads : pc[t] = "ens_append" /\ result[t] = n

\* C20.  No update of active_nodes is lost: while the process runs (here with no
\* failed provider call), every node that is running at the provider, has had no
\* Stop request and whose launch result is not pending is in active_nodes.
C20_NoLostUpdate ==
  (ProcessAlive /\ perr = 0)
    => \A n \in running :
         (saStops[n] = 0 /\ n \notin rmStops /\ ~Pending(n)) => InList(n, active_nodes)

====
